---- MODULE Spec2Model ----
(***************************************************************************)
(* Model of src/CiscoASA/anyconnect.py: main() prompts for credentials,    *)
(* polls the two firewalls of the inventory one after the other with       *)
(* show_vpn_sessiondb(), and output_to_excel() adds the collected records  *)
(* as a new sheet of the workbook on disk.  One process invocation is one  *)
(* run; the workbook on disk is the only state that survives a run.        *)
(***************************************************************************)
EXTENDS Integers, Sequences, FiniteSets, TLC

VARIABLES
    pc,           \* position of the process: start, loop, connect, reprompt,
                  \* send, report, save, done, quit, crashed
    run,          \* number of the current process invocation
    creds,        \* creds[i]: the (username, password) stored in device dict i
    tab,          \* tab_name of main()
    idx,          \* position of the for loop of main() in the inventory
    results,      \* the list `results` of main()
    failures,     \* failed ConnectHandler calls in the running while loop
    open,         \* hosts with an established, not yet disconnected session
    wb,           \* the workbook object of output_to_excel (list of sheets)
    loaded,       \* "none" before load_workbook, then "ok" or "failed"
    row_number,   \* row_number of output_to_excel
    disk,         \* the file AnyConnect.xlsx
    err,          \* the exception that ended the process, "" if none
    reported,     \* the N of the line "Recorded N rows ...", -1 if not printed
    sentinel,     \* history: get_creds() has read the quit sentinel in this run
    diskAtStart,  \* history: the file as it was when the run started
    saves,        \* history: number of wb.save calls that wrote the file
    returned,     \* history: what send_command returned, per inventory position
    used,         \* history of the running show_vpn_sessiondb call: the pair
                  \* of its latest ConnectHandler(**device) call
    given,        \* history of that call: the pair its latest get_creds() returned
    pending,      \* history of that call: get_creds() calls since its latest
                  \* failed ConnectHandler call
    firstPair,    \* history: the pair of line 27
    loads,        \* history: number of load_workbook calls
    commands      \* history: the hosts send_command was called on, in order

vars == <<pc, run, creds, tab, idx, results, failures, open, wb, loaded,
          row_number, disk, err, reported, sentinel, diskAtStart, saves,
          returned, used, given, pending, firstPair, loads, commands>>

(***************************************************************************)
(* Bounds of the model.                                                    *)
(***************************************************************************)
MaxRuns == 2        \* process invocations in one behaviour
MaxFailures == 2    \* failed session establishments per device

(***************************************************************************)
(* Python values.                                                          *)
(***************************************************************************)
None == "None"

Range(s) == {s[i] : i \in 1..Len(s)}

\* A dict is the sequence of its (key, value) items in insertion order.
Keys(d) == [i \in 1..Len(d) |-> d[i][1]]

\* dict.get(key): the value, None for a missing key.
Get(d, key) ==
    IF \E i \in 1..Len(d) : d[i][1] = key
    THEN d[CHOOSE i \in 1..Len(d) : d[i][1] = key][2]
    ELSE None

\* The two kinds of item main() appends to `results`, told apart by type().
Str(s) == [type |-> "str", val |-> s]
List(l) == [type |-> "list", val |-> l]

(***************************************************************************)
(* The environment: inventory, clock, user input, parser output.           *)
(***************************************************************************)
Inventory == <<"fwl-dc1-vpn-a", "fwl-dc0-inet-a">>

NumDevices == Len(Inventory)

\* A loop that walks the list [secondary, primary].
HostReversed(i) == Inventory[NumDevices + 1 - i]

\* firewall["host"] in iteration i of the loop over [primary, secondary].
Host(i) == Inventory[i]

\* Readings of datetime.now().
Clock ==
    { [year |-> 2024, month |-> 1, day |-> 1, hour |-> 0, minute |-> 0, second |-> s] :
        s \in {0, 1} }

Pad2(n) == IF n < 10 THEN "0" \o ToString(n) ELSE ToString(n)

\* now.strftime("%Y_%m_%d_%H_%M_%S"), for four-digit years.
Strftime(now) ==
    ToString(now.year) \o "_" \o Pad2(now.month) \o "_" \o Pad2(now.day) \o "_"
        \o Pad2(now.hour) \o "_" \o Pad2(now.minute) \o "_" \o Pad2(now.second)

\* What the user types at the two prompts of get_creds().
Usernames == {"admin", "Q"}
Passwords == {"hunter2", "s3cret", "q"}

\* str.lower() on the inputs above.
Lower(s) == IF s = "Q" THEN "q" ELSE s

\* The test of lines 64 and 67: the input is the quit sentinel.
IsQuit(s) == Lower(s) = "q"

\* Records as the TextFSM parser returns them.
RecAlice == << <<"user", "alice">>, <<"ip", "10.0.0.1">> >>
RecBob == << <<"ip", "10.0.0.2">>, <<"user", "bob">> >>
RecCarol == << <<"user", "carol">> >>

\* Results of send_command(..., use_textfsm=True).
Outputs == { <<>>, <<RecAlice>>, <<RecCarol, RecBob>> }

NoCreds == <<"", "">>

(***************************************************************************)
(* get_creds(): exit("QUITTING") when either input is the sentinel, else   *)
(* the pair (un, pw).  The password is only asked for when the username    *)
(* is not the sentinel.                                                    *)
(***************************************************************************)
\* get_creds() comparing the inputs with "q" as typed.
GetCredsCaseSensitive(un, pw) ==
    IF un = "q" THEN [quit |-> TRUE, pair |-> NoCreds]
    ELSE IF pw = "q" THEN [quit |-> TRUE, pair |-> NoCreds]
    ELSE [quit |-> FALSE, pair |-> <<un, pw>>]

GetCreds(un, pw) ==
    IF IsQuit(un) THEN [quit |-> TRUE, pair |-> NoCreds]
    ELSE IF IsQuit(pw) THEN [quit |-> TRUE, pair |-> NoCreds]
    ELSE [quit |-> FALSE, pair |-> <<un, pw>>]

(***************************************************************************)
(* openpyxl.  A worksheet is its title, its cells (a function from         *)
(* <<row, column>> to the value), its tables and its freeze_panes.  The    *)
(* workbook is the list of its worksheets, the file is the saved list.     *)
(***************************************************************************)
NoCells == [p \in {} |-> None]

NewSheet(title) ==
    [title |-> title, cells |-> NoCells, tables |-> <<>>, freeze_panes |-> None]

Titles(wbk) == {wbk[i].title : i \in 1..Len(wbk)}

TableNames(wbk) ==
    UNION {{wbk[i].tables[j].displayName : j \in 1..Len(wbk[i].tables)} : i \in 1..Len(wbk)}

Max(S) == CHOOSE m \in S : \A n \in S : n <= m

\* openpyxl.utils.names.avoid_duplicate_name: a title already in the workbook
\* gets the next free number appended (create_sheet never fails on a collision).
AvoidDuplicateName(names, value) ==
    IF value \notin names THEN value
    ELSE LET counts == {k \in 1..Cardinality(names) : (value \o ToString(k)) \in names}
             highest == IF counts = {} THEN 0 ELSE Max(counts)
         IN  value \o ToString(highest + 1)

\* ws = wb.active; ws.title = title: the first sheet of a loaded workbook is
\* taken over instead of a new one being created.
CreateSheetActive(wbk, title, index) ==
    IF wbk = <<>> THEN <<NewSheet(title)>>
    ELSE <<[wbk[1] EXCEPT !.title = AvoidDuplicateName(Titles(wbk), title)]>>
            \o Tail(wbk)

\* wb.create_sheet(title): without the index the new sheet goes to the end.
CreateSheetAppended(wbk, title, index) ==
    wbk \o <<NewSheet(AvoidDuplicateName(Titles(wbk), title))>>

\* wb.create_sheet(title, index): the new sheet is inserted at position index.
CreateSheet(wbk, title, index) ==
    SubSeq(wbk, 1, index)
        \o <<NewSheet(AvoidDuplicateName(Titles(wbk), title))>>
        \o SubSeq(wbk, index + 1, Len(wbk))

\* Workbook(): a new workbook holds one default sheet, titled "Sheet".
Workbook == <<NewSheet("Sheet")>>

\* wb.active: the first sheet of a new workbook.
Active(wbk) == wbk[1]

\* The default sheet left in the new workbook.
RemoveNothing(wbk, ws) == wbk

\* wb.remove(ws)
Remove(wbk, ws) == SelectSeq(wbk, LAMBDA sheet : sheet # ws)

\* Lines 118..123: the sheets of the file when load_workbook returns them,
\* else a new workbook with its default sheet removed.
LoadOrNew(readable, file) ==
    IF readable THEN file.sheets ELSE Remove(Workbook, Active(Workbook))

\* ws.cell(row, column, value): the cell exists afterwards; a value of None
\* leaves its content as it was (empty for a new cell).
Cell(ws, row, column, value) ==
    IF value = None /\ <<row, column>> \in DOMAIN ws.cells THEN ws
    ELSE [ws EXCEPT !.cells = (<<row, column>> :> value) @@ ws.cells]

Letters ==
    <<"A", "B", "C", "D", "E", "F", "G", "H", "I", "J", "K", "L", "M",
      "N", "O", "P", "Q", "R", "S", "T", "U", "V", "W", "X", "Y", "Z">>

\* openpyxl.utils.cell.get_column_letter, for columns 1..702.
GetColumnLetter(n) ==
    IF n <= 26 THEN Letters[n]
    ELSE Letters[(n - 1) \div 26] \o Letters[((n - 1) % 26) + 1]

(***************************************************************************)
(* output_to_excel(tab, data), lines 125..165, on the workbook in memory.  *)
(***************************************************************************)

\* data[1][0] raises IndexError when the first device returned no record.
HeadingsRaise(data) == Len(data[2].val) = 0

\* headings = data[1][0].keys()
Headings(data) == Keys(data[2].val[1])

\* column_number filled from enumerate(headings, 1).
ColumnNumberFromOne(headings) ==
    [h \in Range(headings) |-> CHOOSE i \in 1..Len(headings) : headings[i] = h]

\* column_number[heading] = element, from enumerate(headings, 2)
ColumnNumber(headings) ==
    [h \in Range(headings) |-> 1 + (CHOOSE i \in 1..Len(headings) : headings[i] = h)]

\* Lines 134..139: the header cells of columns 2.., left to right.
RECURSIVE WriteHeadings(_, _, _)
WriteHeadings(ws, headings, i) ==
    IF i > Len(headings) THEN ws
    ELSE WriteHeadings(Cell(ws, 1, i + 1, headings[i]), headings, i + 1)

\* Lines 152..159: the cells of one row under the headings.
RECURSIVE WriteRowData(_, _, _, _, _)
WriteRowData(ws, row, row_data, headings, i) ==
    IF i > Len(headings) THEN ws
    ELSE WriteRowData(
            Cell(ws, row, ColumnNumber(headings)[headings[i]], Get(row_data, headings[i])),
            row, row_data, headings, i + 1)

\* Lines 148..159: the rows of one device; st = [ws, row_number, hostname].
RECURSIVE WriteItem(_, _, _, _)
WriteItem(st, item, headings, j) ==
    IF j > Len(item) THEN st
    ELSE LET row == st.row_number + 1
             ws1 == Cell(st.ws, row, 1, st.hostname)
             ws2 == WriteRowData(ws1, row, item[j], headings, 1)
         IN  WriteItem([st EXCEPT !.ws = ws2, !.row_number = row], item, headings, j + 1)

\* Lines 141..159: the loop over data; a str item sets hostname, any other
\* item is the list of records of that host.
RECURSIVE WriteData(_, _, _, _)
WriteData(st, data, headings, k) ==
    IF k > Len(data) THEN st
    ELSE IF data[k].type = "str"
         THEN WriteData([st EXCEPT !.hostname = data[k].val], data, headings, k + 1)
         ELSE WriteData(WriteItem(st, data[k].val, headings, 1), data, headings, k + 1)

\* table_ref = f"A1:{max_column}{row_number}"
TableRef(number_of_columns, rows) ==
    "A1:" \o GetColumnLetter(number_of_columns) \o ToString(rows)

\* table_name = f"_{tab}"
TableName(t) == "_" \o t

\* Lines 125..127: the new first sheet with its "Firewall" header cell.
SheetCreated(wbk, t) ==
    LET wb1 == CreateSheet(wbk, t, 0)
    IN  <<Cell(wb1[1], 1, 1, "Firewall")>> \o Tail(wb1)

\* Lines 128..159 when data[1][0] exists: the workbook with the new sheet
\* filled, and the final row_number.
Written(wbk, t, data) ==
    LET wb1 == SheetCreated(wbk, t)
        headings == Headings(data)
        ws1 == WriteHeadings(wb1[1], headings, 1)
        st == WriteData([ws |-> ws1, row_number |-> 1, hostname |-> None],
                        data, headings, 1)
    IN  [wb |-> <<st.ws>> \o Tail(wb1), row_number |-> st.row_number]

\* Lines 161..165: the table over the written range, and the frozen panes.
Tabled(wbk, t, data, rows) ==
    LET number_of_columns == Len(Headings(data)) + 1
        table == [displayName |-> TableName(t),
                  ref |-> TableRef(number_of_columns, rows)]
    IN  <<[wbk[1] EXCEPT !.tables = Append(@, table), !.freeze_panes = "D2"]>>
            \o Tail(wbk)

\* Lines 128..165 when data[1][0] exists.  add_table raises ValueError on a
\* table name the workbook already has in the openpyxl releases that check
\* it (checked), and adds the table in those that do not.
BuildFilled(wbk, t, data, checked) ==
    LET w == Written(wbk, t, data)
    IN  IF checked /\ TableName(t) \in TableNames(wbk)
        THEN [err |-> "ValueError", wb |-> w.wb, row_number |-> w.row_number]
        ELSE [err |-> "", wb |-> Tabled(w.wb, t, data, w.row_number),
              row_number |-> w.row_number]

\* Headings that default to none when the first device has no record.
BuildHeaderless(wbk, t, data, checked) ==
    IF HeadingsRaise(data)
    THEN [err |-> "",
          wb |-> <<[SheetCreated(wbk, t)[1] EXCEPT
                      !.tables = Append(@, [displayName |-> TableName(t),
                                            ref |-> TableRef(1, 1)]),
                      !.freeze_panes = "D2"]>> \o wbk,
          row_number |-> 1]
    ELSE BuildFilled(wbk, t, data, checked)

\* Lines 125..165: err is the exception raised ("" if none), wb the workbook
\* in memory when the lines end, row_number its last value (0: not yet set).
Build(wbk, t, data, checked) ==
    IF HeadingsRaise(data)
    THEN [err |-> "IndexError", wb |-> SheetCreated(wbk, t), row_number |-> 0]
    ELSE BuildFilled(wbk, t, data, checked)

(***************************************************************************)
(* The process.                                                            *)
(***************************************************************************)
NoFile == [exists |-> FALSE, sheets |-> <<>>]

\* Lines 95..96: the pair replaces the credentials of device dict i.
ReplaceNothing(c, i, pair) == c

\* Lines 95..96 on one credential store shared by all device dicts.
ReplaceAll(c, i, pair) == [j \in DOMAIN c |-> pair]

\* Lines 95..96: device["username"], device["password"] of device dict i.
Replace(c, i, pair) == [c EXCEPT ![i] = pair]

\* A loop over all firewalls but the last.
MoreDevicesButLast(i) == i < NumDevices - 1

\* Line 47: the for loop has a firewall left after i iterations.
MoreDevices(i) == i < NumDevices

\* A retry loop that gives up on the second failure of a device.
AfterFailureBounded(f) == IF f > 1 THEN "crashed" ELSE "reprompt"

\* Lines 91..94: whatever ConnectHandler raised and however often it has
\* failed (f times), the except clause asks for credentials.
AfterFailure(f) == "reprompt"

\* A session that is never disconnected.
DisconnectNothing(sessions, host) == sessions

\* Line 99: net_connect.disconnect()
Disconnect(sessions, host) == sessions \ {host}

Init ==
    /\ pc = "start"
    /\ run = 1
    /\ creds = [i \in 1..NumDevices |-> NoCreds]
    /\ tab = ""
    /\ idx = 0
    /\ results = <<>>
    /\ failures = 0
    /\ open = {}
    /\ wb = <<>>
    /\ loaded = "none"
    /\ row_number = 0
    /\ disk = NoFile
    /\ err = ""
    /\ reported = -1
    /\ sentinel = FALSE
    /\ diskAtStart = NoFile
    /\ saves = 0
    /\ returned = <<>>
    /\ used = NoCreds
    /\ given = NoCreds
    /\ pending = 0
    /\ firstPair = NoCreds
    /\ loads = 0
    /\ commands = <<>>

\* main(), lines 27..46: the first get_creds(), the two device dicts built
\* from the same pair, tab_name, the empty results list.
MainStart ==
    /\ pc = "start"
    /\ \E un \in Usernames, pw \in Passwords, now \in Clock :
          /\ sentinel' = (IsQuit(un) \/ IsQuit(pw))
          /\ LET c == GetCreds(un, pw)
             IN  IF c.quit
                 THEN /\ pc' = "quit"
                      /\ UNCHANGED <<creds, tab, firstPair>>
                 ELSE /\ pc' = "loop"
                      /\ creds' = [i \in 1..NumDevices |-> c.pair]
                      /\ tab' = Strftime(now)
                      /\ firstPair' = c.pair
    /\ UNCHANGED <<run, idx, results, failures, open, wb, loaded, row_number,
                   disk, err, reported, diskAtStart, saves, returned, used,
                   given, pending, loads, commands>>

\* main(), lines 47..48: the next firewall of the loop, its host appended to
\* results before it is polled; after the last one, line 52 is next.
ForNext ==
    /\ pc = "loop"
    /\ IF MoreDevices(idx)
       THEN /\ idx' = idx + 1
            /\ results' = Append(results, Str(Host(idx + 1)))
            /\ failures' = 0
            /\ pending' = 0
            /\ pc' = "connect"
       ELSE /\ pc' = "report"
            /\ UNCHANGED <<idx, results, failures, pending>>
    /\ UNCHANGED <<run, creds, tab, open, wb, loaded, row_number, disk, err,
                   reported, sentinel, diskAtStart, saves, returned, used,
                   given, firstPair, loads, commands>>

\* show_vpn_sessiondb(), lines 86..90: ConnectHandler(**device) returns a
\* session and done = True ends the loop.
ConnectOk ==
    /\ pc = "connect"
    /\ used' = creds[idx]
    /\ open' = open \cup {Host(idx)}
    /\ pc' = "send"
    /\ UNCHANGED <<run, creds, tab, idx, results, failures, wb, loaded,
                   row_number, disk, err, reported, sentinel, diskAtStart,
                   saves, returned, given, pending, firstPair, loads, commands>>

\* show_vpn_sessiondb(), lines 86..91: ConnectHandler(**device) raises,
\* whatever the reason; the except clause is next.
ConnectFail ==
    /\ pc = "connect"
    /\ failures < MaxFailures
    /\ failures' = failures + 1
    /\ used' = creds[idx]
    /\ pending' = 0
    /\ pc' = AfterFailure(failures + 1)
    /\ UNCHANGED <<run, creds, tab, idx, results, open, wb, loaded, row_number,
                   disk, err, reported, sentinel, diskAtStart, saves, returned,
                   given, firstPair, loads, commands>>

\* As ConnectFail, once the failures are no longer counted: the while loop
\* of line 86 has no bound of its own.
ConnectFailAgain ==
    /\ pc = "connect"
    /\ failures = MaxFailures
    /\ used' = creds[idx]
    /\ pending' = 0
    /\ pc' = AfterFailure(failures + 1)
    /\ UNCHANGED <<run, creds, tab, idx, results, failures, open, wb, loaded,
                   row_number, disk, err, reported, sentinel, diskAtStart,
                   saves, returned, given, firstPair, loads, commands>>

Connect == ConnectOk \/ ConnectFail

\* show_vpn_sessiondb(), lines 92..96, the except clause: get_creds() again;
\* its exit() is raised inside the handler and so ends the process, a pair
\* replaces the credentials of this device and the loop tries again.
Reprompt ==
    /\ pc = "reprompt"
    /\ pending' = pending + 1
    /\ \E un \in Usernames, pw \in Passwords :
          /\ sentinel' = (IsQuit(un) \/ IsQuit(pw))
          /\ LET c == GetCreds(un, pw)
             IN  IF c.quit
                 THEN /\ pc' = "quit"
                      /\ UNCHANGED <<creds, given>>
                 ELSE /\ pc' = "connect"
                      /\ creds' = Replace(creds, idx, c.pair)
                      /\ given' = c.pair
    /\ UNCHANGED <<run, tab, idx, results, failures, open, wb, loaded,
                   row_number, disk, err, reported, diskAtStart, saves,
                   returned, used, firstPair, loads, commands>>

\* show_vpn_sessiondb(), lines 98..100, and main(), line 50: send_command
\* returns the parsed records, the session is disconnected, the call returns
\* (its loop state is gone) and the records are appended to results; or
\* send_command raises, which ends the process at line 98.
SendCommand ==
    /\ pc = "send"
    /\ \/ \E output \in Outputs :
             /\ results' = Append(results, List(output))
             /\ returned' = Append(returned, output)
             /\ open' = Disconnect(open, Host(idx))
             /\ failures' = 0
             /\ used' = NoCreds
             /\ given' = NoCreds
             /\ pending' = 0
             /\ pc' = "loop"
             /\ UNCHANGED err
       \/ /\ pc' = "crashed"
          /\ err' = "send_command"
          /\ UNCHANGED <<results, returned, open, failures, used, given, pending>>
    /\ commands' = Append(commands, Host(idx))
    /\ UNCHANGED <<run, creds, tab, idx, wb, loaded, row_number, disk,
                   reported, sentinel, diskAtStart, saves, firstPair, loads>>

\* output_to_excel(), lines 114..165: load the workbook, or start a new one
\* without its default sheet when load_workbook raises, then build the new
\* sheet.  load_workbook raises when there is no file and may raise on a file
\* that exists (any exception is caught).  An exception of the later lines
\* ends the process.
OutputBuild ==
    /\ pc = "report"
    /\ \E readable \in {r \in BOOLEAN : r => disk.exists}, checked \in BOOLEAN :
          LET b == Build(LoadOrNew(readable, disk), tab, results, checked)
          IN  /\ loaded' = IF readable THEN "ok" ELSE "failed"
              /\ loads' = loads + 1
              /\ wb' = b.wb
              /\ row_number' = b.row_number
              /\ err' = b.err
              /\ pc' = IF b.err = "" THEN "save" ELSE "crashed"
    /\ UNCHANGED <<run, creds, tab, idx, results, failures, open, disk,
                   reported, sentinel, diskAtStart, saves, returned, used,
                   given, pending, firstPair, commands>>

\* output_to_excel(), lines 166..167: wb.save writes the file and the row
\* count is printed; or wb.save raises and the process ends without the line.
OutputSave ==
    /\ pc = "save"
    /\ \/ /\ disk' = [exists |-> TRUE, sheets |-> wb]
          /\ saves' = saves + 1
          /\ reported' = row_number
          /\ pc' = "done"
          /\ UNCHANGED err
       \/ /\ pc' = "crashed"
          /\ err' = "save"
          /\ UNCHANGED <<disk, saves, reported>>
    /\ UNCHANGED <<run, creds, tab, idx, results, failures, open, wb, loaded,
                   row_number, sentinel, diskAtStart, returned, used, given,
                   pending, firstPair, loads, commands>>

\* Lines 170..171: the script is started again once the process has ended.
\* Only the file is carried over.
StartRun ==
    /\ pc \in {"done", "quit", "crashed"}
    /\ run < MaxRuns
    /\ run' = run + 1
    /\ pc' = "start"
    /\ creds' = [i \in 1..NumDevices |-> NoCreds]
    /\ tab' = ""
    /\ idx' = 0
    /\ results' = <<>>
    /\ failures' = 0
    /\ open' = {}
    /\ wb' = <<>>
    /\ loaded' = "none"
    /\ row_number' = 0
    /\ err' = ""
    /\ reported' = -1
    /\ sentinel' = FALSE
    /\ diskAtStart' = disk
    /\ saves' = 0
    /\ returned' = <<>>
    /\ used' = NoCreds
    /\ given' = NoCreds
    /\ pending' = 0
    /\ firstPair' = NoCreds
    /\ loads' = 0
    /\ commands' = <<>>
    /\ UNCHANGED disk

\* The steps of one run.
RunStep ==
    MainStart \/ ForNext \/ ConnectOk \/ ConnectFail \/ Reprompt \/ SendCommand
        \/ OutputBuild \/ OutputSave

Next == RunStep \/ StartRun

Spec == Init /\ [][Next]_vars

\* The while loop of line 86 without a bound on its iterations.
NextLive == Next \/ ConnectFailAgain

\* A step that leaves the retry loop: a ConnectHandler call that returns a
\* session, or a get_creds() call that reads the quit sentinel.
LoopExit == ConnectOk \/ (Reprompt /\ pc' = "quit")

\* The steps of a run other than the worksheet build of lines 118..165.
PollOrSaveStep ==
    MainStart \/ ForNext \/ ConnectOk \/ ConnectFail \/ ConnectFailAgain
        \/ Reprompt \/ SendCommand \/ OutputSave

\* Lines 118..165 seen from outside: output_to_excel() reaches wb.save or
\* raises.  On the process counter this is the OutputBuild step.
OutputReturns == pc = "report" /\ pc' \in {"save", "crashed"}

\* The process keeps running while it has a step to take, and a device that
\* is tried again and again is at some point given a pair it accepts, or the
\* user quits.
LiveSpec ==
    /\ Init
    /\ [][NextLive]_vars
    /\ WF_vars(PollOrSaveStep)
    /\ WF_pc(OutputReturns)
    /\ SF_vars(LoopExit)

(***************************************************************************)
(* Properties.                                                             *)
(***************************************************************************)

\* The run has gone through lines 114..165 of output_to_excel.
Built == loaded # "none"

\* The records of inventory position i in the finished results list.
RecordsOf(i) == results[2 * i].val

\* The PollRun as one list of <<host, record>>, devices in list order.
RECURSIVE PollRunRows(_)
PollRunRows(i) ==
    IF i > NumDevices THEN <<>>
    ELSE [j \in 1..Len(RecordsOf(i)) |-> <<results[2 * i - 1].val, RecordsOf(i)[j]>>]
            \o PollRunRows(i + 1)

\* Number of cells of row r of a sheet; its header as a list.
Width(ws, r) == Cardinality({p \in DOMAIN ws.cells : p[1] = r})

HeaderOf(ws) == [c \in 1..Width(ws, 1) |-> ws.cells[<<1, c>>]]

LastRow(ws) == Max({p[1] : p \in DOMAIN ws.cells})

\* The value a record holds for a key, None when it has no such key.
ValueFor(rec, key) ==
    IF \E item \in Range(rec) : item[1] = key
    THEN (CHOOSE item \in Range(rec) : item[1] = key)[2]
    ELSE None

\* C1: when the run reaches the report step, results holds exactly one
\* (host, records) entry per device, entry i carrying the host of inventory
\* position i and the records the successful send_command of that device
\* returned; failed attempts have added nothing.
PollRunMatchesInventory ==
    pc = "report" =>
        /\ Len(results) = 2 * NumDevices
        /\ Len(returned) = NumDevices
        /\ \A i \in 1..NumDevices :
              /\ results[2 * i - 1] = Str(Inventory[i])
              /\ results[2 * i] = List(returned[i])

\* C1 witness: the report step is reached after a failed attempt on the last
\* device (its credentials were replaced), with records of both devices.
PollRunAfterRetryReached ==
    /\ pc = "report"
    /\ creds[NumDevices] # firstPair
    /\ \A i \in 1..NumDevices : Len(returned[i]) > 0

\* C2: once get_creds has read the quit sentinel the run has ended: no step
\* of the run is possible any more, the workbook was never loaded, nothing
\* was saved and the file is as it was when the run started.
QuitEndsRunWithoutSave ==
    sentinel =>
        /\ pc = "quit"
        /\ ~ENABLED RunStep
        /\ loaded = "none"
        /\ saves = 0
        /\ disk = diskAtStart

\* C2 witness: the sentinel is read at a re-prompt for the second device,
\* after the first was polled, in a run that found an existing file.
QuitAtRepromptReached ==
    /\ sentinel
    /\ pc = "quit"
    /\ idx = NumDevices
    /\ Len(results) = 2 * NumDevices - 1
    /\ diskAtStart.exists

\* C3 (as claimed): whenever some device has a record, schema discovery does
\* not fail and the header is "Firewall" followed by the keys of the first
\* record of the first device that has one.
SchemaFromFirstDeviceWithRecords ==
    (Built /\ err \notin {"ValueError", "save"}
           /\ \E i \in 1..NumDevices : RecordsOf(i) # <<>>) =>
        LET first == CHOOSE i \in 1..NumDevices :
                        /\ RecordsOf(i) # <<>>
                        /\ \A k \in 1..(i - 1) : RecordsOf(k) = <<>>
        IN  /\ pc \in {"save", "done"}
            /\ HeaderOf(wb[1]) = <<"Firewall">> \o Keys(RecordsOf(first)[1])

\* C4: a run in which every device returned no record ends in output_to_excel
\* with the IndexError of data[1][0]; nothing is saved and the file is as it
\* was when the run started (absent if it was absent).
AllEmptyRunFailsUnsaved ==
    (Built /\ \A i \in 1..NumDevices : RecordsOf(i) = <<>>) =>
        /\ pc = "crashed"
        /\ err = "IndexError"
        /\ saves = 0
        /\ disk = diskAtStart

\* C4 witness: an all-empty run has failed against an existing file.
AllEmptyRunFailedReached ==
    /\ Built
    /\ \A i \in 1..NumDevices : RecordsOf(i) = <<>>
    /\ pc = "crashed"
    /\ diskAtStart.exists

\* C5 (as claimed): a run whose tab name is already a sheet of the loaded
\* workbook ends in an error and leaves the file as it was.
DuplicateSheetRejected ==
    (loaded = "ok" /\ tab \in Titles(diskAtStart.sheets) /\ pc \in {"done", "crashed"}) =>
        /\ pc = "crashed"
        /\ disk = diskAtStart

\* C6: a run that loaded the workbook never changes a sheet the file already
\* had: every sheet of the file before a save is a sheet of the file after
\* it, with the same title, cells and tables.
ExistingSheetsUntouched ==
    [][(loaded = "ok" /\ disk' # disk) =>
          \A i \in 1..Len(disk.sheets) :
              \E j \in 1..Len(disk'.sheets) : disk'.sheets[j] = disk.sheets[i]]_vars

\* C6 witness: a second append to a loaded file has been saved under another
\* sheet name.
SecondAppendSavedReached ==
    /\ pc = "done"
    /\ loaded = "ok"
    /\ Len(disk.sheets) = 2
    /\ disk.sheets[1].title # disk.sheets[2].title
    /\ disk.sheets[2] \in Range(diskAtStart.sheets)

\* C7 (as claimed): every successful run with a tab name the file does not
\* have yet adds exactly one sheet, titled tab, in front of the sheets the
\* file had.
EveryRunAddsFirstSheet ==
    [][(pc = "save" /\ pc' = "done" /\ tab \notin Titles(disk.sheets)) =>
          /\ Len(disk'.sheets) = Len(disk.sheets) + 1
          /\ disk'.sheets[1].title = tab
          /\ Tail(disk'.sheets) = disk.sheets]_vars

\* C7 (amended): every successful run that found no file or loaded the file,
\* with a tab name the file does not have yet, adds exactly one sheet, titled
\* tab, in front of the sheets the file had.
LoadedRunAddsFirstSheet ==
    [][(pc = "save" /\ pc' = "done" /\ tab \notin Titles(disk.sheets)
            /\ (loaded = "ok" \/ ~disk.exists)) =>
          /\ Len(disk'.sheets) = Len(disk.sheets) + 1
          /\ disk'.sheets[1].title = tab
          /\ Tail(disk'.sheets) = disk.sheets]_vars

\* C7 witness: two successful runs with distinct tab names from an absent
\* file, the second sheet in front of the first.
TwoSheetsNewestFirstReached ==
    /\ pc = "done"
    /\ run = 2
    /\ loaded = "ok"
    /\ Len(disk.sheets) = 2
    /\ disk.sheets[1].title = tab
    /\ disk.sheets[2].title # tab
    /\ Tail(disk.sheets) = diskAtStart.sheets

\* C8 (as claimed): the count printed on completion is the number of data
\* rows, the total number of records of all devices.
ReportedCountIsDataRows ==
    pc = "done" => reported = Len(PollRunRows(1))

\* C9 (as claimed): whenever the poll of a device is over (the loop moves on,
\* or the process has ended) no session is open.
SessionsAlwaysClosed ==
    pc \in {"loop", "report", "save", "done", "quit", "crashed"} => open = {}

\* C10: the new sheet has one data row per record in PollRun order, below the
\* header; column 1 holds the host of the record's device, and the column of
\* each heading holds the record's value for it, empty when the record has
\* no such key.
DataRowsFollowPollRun ==
    pc \in {"save", "done"} =>
        LET ws == wb[1]
            header == HeaderOf(ws)
            rows == PollRunRows(1)
        IN  /\ LastRow(ws) = 1 + Len(rows)
            /\ \A r \in 1..Len(rows) :
                  /\ Width(ws, r + 1) = Len(header)
                  /\ ws.cells[<<r + 1, 1>>] = rows[r][1]
                  /\ \A c \in 2..Len(header) :
                        ws.cells[<<r + 1, c>>] = ValueFor(rows[r][2], header[c])

\* C10 witness: a saved sheet with rows of both devices, one of them with an
\* empty cell for a key its record lacks.
MissingKeyRowSavedReached ==
    /\ pc = "done"
    /\ \A i \in 1..NumDevices : RecordsOf(i) # <<>>
    /\ \E p \in DOMAIN wb[1].cells : p[1] > 1 /\ wb[1].cells[p] = None

\* C11 (as claimed): every sheet of the file has one table, over rows 1 to
\* 1 + number of data rows and columns 1 to 1 + number of headings, and two
\* sheets with distinct titles never have the same table name.
TableCoversExtentAndNameUnique ==
    \A i \in 1..Len(disk.sheets) :
        LET ws == disk.sheets[i]
        IN  /\ Len(ws.tables) = 1
            /\ ws.tables[1].ref =
                  "A1:" \o Letters[Width(ws, 1)] \o ToString(LastRow(ws))
            /\ \A j \in 1..Len(disk.sheets) :
                  ws.title # disk.sheets[j].title =>
                      ws.tables[1].displayName # disk.sheets[j].tables[1].displayName

\* C11, the part about the range alone, which holds: the table of every saved
\* sheet covers exactly the header row and the data rows written, over the
\* host column and the heading columns.
TableCoversWrittenExtent ==
    \A i \in 1..Len(disk.sheets) :
        LET ws == disk.sheets[i]
        IN  /\ Len(ws.tables) = 1
            /\ ws.tables[1].ref =
                  "A1:" \o Letters[Width(ws, 1)] \o ToString(LastRow(ws))

\* C12: a successful run whose load_workbook raised, the file being absent or
\* not loadable, saves a file with exactly one sheet, the sheet of this run
\* titled tab: the default sheet of the new workbook is not in it.
UnloadedRunSavesOnlyItsSheet ==
    (pc = "done" /\ loaded = "failed") =>
        /\ Len(disk.sheets) = 1
        /\ disk.sheets[1].title = tab
        /\ disk.sheets[1].cells[<<1, 1>>] = "Firewall"

\* C12 witness: a successful run that could not load an existing file with a
\* sheet in it.
UnloadedExistingFileSavedReached ==
    /\ pc = "done"
    /\ loaded = "failed"
    /\ diskAtStart.exists
    /\ Len(diskAtStart.sheets) > 0

\* C13 (as claimed): after wb.save has raised no row count is printed, and
\* the collected results are still at hand for the save step to be taken
\* again on its own.
SaveFailureKeepsResults ==
    err = "save" =>
        /\ reported = -1
        /\ Len(results) = 2 * NumDevices
        /\ ENABLED OutputSave

\* C14: in the retry loop of a device every failed ConnectHandler call is
\* followed by exactly one get_creds() call before the next ConnectHandler
\* call; the pair it returns is stored in that device's dict and is the pair
\* of the next call; and the loop over the firewalls moves on only after a
\* session was established and used.
FailureThenOnePromptThenRetry ==
    /\ pc = "reprompt" => (failures > 0 /\ pending = 0)
    /\ (pc = "connect" /\ failures > 0) => (pending = 1 /\ creds[idx] = given)
    /\ (pc = "send" /\ failures > 0) => (pending = 1 /\ used = given)
    /\ (pc = "reprompt" /\ failures > 1) => used = given
    /\ pc \in {"loop", "report"} => (Len(returned) = idx /\ Len(commands) = idx)

\* C14 witness: a session established at the third attempt, after two
\* failures and two fresh pairs, the second of them not the pair of line 27.
ThirdAttemptWithFreshPairReached ==
    /\ pc = "send"
    /\ failures = 2
    /\ used = given
    /\ used # firstPair

\* C15: the retry loop is left only by an established session or by the quit
\* sentinel (from the loop the process goes nowhere but to the send_command
\* of that session or to its end by exit()), and with a provider that at
\* some point gives an accepted pair or quits every run that was started
\* ends.
RetryLoopExitsAndRunEnds ==
    /\ [][(pc \in {"connect", "reprompt"})
            => (pc' \in {"connect", "reprompt", "send", "quit"})]_vars
    /\ (pc = "start") ~> (pc \in {"done", "quit", "crashed"})

\* C15 witness: a run has got past polling to the workbook after the retry
\* loop of every device was gone through and left by an accepted pair.
RunEndedAfterRetriesReached ==
    /\ pc \in {"done", "crashed"}
    /\ loads = 1
    /\ \A i \in 1..NumDevices : creds[i] # firstPair


\* C16: in a run the document is loaded at most once and saved at most once,
\* and while a device of the inventory has not yet delivered its records
\* nothing was loaded or saved and the file is as it was when the run began;
\* so it is as well when the run has stopped during polling.
DocumentTouchedOnceAfterPolling ==
    /\ loads <= 1
    /\ saves <= 1
    /\ saves <= loads
    /\ Len(returned) < NumDevices
          => loads = 0 /\ saves = 0 /\ disk = diskAtStart

\* C16 witness: a later run has polled every device and then loaded the file
\* of the run before it and saved its own workbook over it.
SecondRunLoadedAndSavedOnceReached ==
    /\ pc = "done"
    /\ diskAtStart.exists
    /\ loaded = "ok"
    /\ loads = 1
    /\ saves = 1
    /\ Len(returned) = NumDevices
    /\ disk # diskAtStart


\* C17: at most one session is open at any time; the commands sent so far
\* are one per device in inventory order; while device idx is being connected
\* to, no session is open and every device before it has had its one command;
\* the session used for a command is that of device idx alone; and once the
\* call for device idx has returned its session is closed again.
OneDeviceAtATime ==
    /\ Cardinality(open) <= 1
    /\ Len(commands) <= NumDevices
    /\ \A k \in 1..Len(commands) : commands[k] = Host(k)
    /\ pc \in {"connect", "reprompt"}
          => open = {} /\ Len(commands) = idx - 1
    /\ pc = "send"
          => open = {Host(idx)} /\ Len(commands) = idx - 1
    /\ pc \in {"loop", "report", "save", "done"}
          => open = {} /\ Len(commands) = idx

\* C17 witness: the session of the second device is open and about to be
\* used, after the first device had its one command and its session closed.
SecondSessionAfterFirstClosedReached ==
    /\ pc = "send"
    /\ idx = 2
    /\ open = {Host(2)}
    /\ commands = <<Host(1)>>


\* C18: during a run the stored pair of every device that is still to come
\* is the pair read at the start of the run, whatever was entered for the
\* devices polled so far; and the first ConnectHandler call for a device,
\* accepted or refused, was made with that pair.
LaterDevicesKeepStartPair ==
    /\ tab # "" => \A j \in (idx + 1)..NumDevices : creds[j] = firstPair
    /\ (pc = "send" /\ failures = 0) \/ (pc = "reprompt" /\ failures = 1)
          => used = firstPair

\* C18 witness: the first device was given another pair in its retry loop,
\* and the second device's first attempt, with the start pair, was accepted.
SecondDeviceFirstAttemptWithStartPairReached ==
    /\ pc = "send"
    /\ idx = 2
    /\ failures = 0
    /\ creds[1] # firstPair
    /\ used = firstPair
    /\ creds[2] = firstPair

====
